---------------------------- MODULE Spec2Model ----------------------------
(***************************************************************************)
(* Model of prog/usb-flasher/usb-flash.py: the firmware image is padded,   *)
(* an application-mode dongle is asked to jump to the Nordic bootloader,   *)
(* the bootloader is looked up by polling, and the image is written and    *)
(* read back over the bootloader's page protocol.                          *)
(*                                                                         *)
(* The script is one thread of control; each action below is one statement *)
(* of the script (in the write and verify loops, one write together with   *)
(* the read of its answer), and `pc' names the line it is at.  The         *)
(* USB transport and the dongle are the environment: the outcome of every  *)
(* call (found / not found / raised, transferred / raised) is chosen with  *)
(* \E, and every call made is appended to the history variable `log'.      *)
(***************************************************************************)
EXTENDS Integers, Sequences, FiniteSets, TLC

(***************************************************************************)
(* Program constants.                                                      *)
(***************************************************************************)
PageSize == 512
BlockSize == 64
BlocksPerPage == 8
usb_timeout == 2500
EP_OUT == 1
EP_IN == 129
VendorId == 6421
PID_A == 258
PID_B == 30583
PID_BOOT == 257
JumpCmd == 255
CMD_WRITE_PAGE == 2
CMD_VERIFY_PAGE == 6
CMD_READ_BLOCK == 3
CtrlRequestType == 64

\* The products in the other order.
product_ids_reversed == <<PID_B, PID_A>>

product_ids == <<PID_A, PID_B>>

\* The values an array('B') element can hold: PyUSB converts every list
\* handed to write() to such an array.
ByteRange == 0 .. (2^8 - 1)

(***************************************************************************)
(* Bounds of the model.                                                    *)
(***************************************************************************)
\* The 1-second window of the polling loop of lines 88-95 is MaxPolls ticks
\* long and a lookup takes at least one tick: at most MaxPolls lookups are
\* made before the window has elapsed.
MaxPolls == 2
\* The firmware files of Spec have lengths around each multiple of the page
\* size up to MaxFilePages pages.
MaxFilePages == 0
\* The same for the files of SpecFlash.
MaxFlashPages == 2
\* The same for the files of SpecPad.
MaxPadPages == 20

(***************************************************************************)
(* Values of the script's variables.                                       *)
(***************************************************************************)
\* `dongle' before its first assignment, and Python's None.
Unbound == "unbound"
None == "none"
\* A device handle is named by the product it was found as.
HandleOf(product_id) ==
    CASE product_id = PID_A -> "dev_0102"
      [] product_id = PID_B -> "dev_7777"
      [] product_id = PID_BOOT -> "dev_0101"
\* timeout=... of a call: the empty tuple when the call passes none.
NoTimeout == <<>>
Timeout(ms) == <<ms>>

Min(a, b) == IF a < b THEN a ELSE b
Max(a, b) == IF a < b THEN b ELSE a

(***************************************************************************)
(* Byte strings.  The firmware is a fixed stream of bytes, FileByte, and   *)
(* every byte string of a run is held as what it is made of: bytes given   *)
(* one by one (`lit'), then `len' bytes of the firmware stream from offset *)
(* `src', then `zeros' zero bytes; `flip' is the 0-based position of a     *)
(* byte that differs from that by one, or NoFlip.  Offsets are 0-based, as *)
(* in the script.                                                          *)
(***************************************************************************)
NoFlip == 0 - 1

\* The byte at 0-based offset i of the firmware stream: never zero, and the
\* first two bytes of each 64-byte block number the block.
FileByte(i) ==
    LET k == i \div BlockSize
        j == i % BlockSize
    IN  CASE j = 0 -> 1 + (k % 255)
          [] j = 1 -> 1 + ((k \div 255) % 255)
          [] OTHER -> 1 + j

Bytes(lit, src, len, zeros, flip) ==
    [lit |-> lit, src |-> IF len = 0 THEN 0 ELSE src, len |-> len,
     zeros |-> zeros, flip |-> flip]

\* A Python list of integers, such as [0x02, page].
Lit(t) == Bytes(t, 0, 0, 0, NoFlip)

\* The first n bytes of the firmware stream: a firmware file of n bytes.
FileOfLength(n) == Bytes(<< >>, 0, n, 0, NoFlip)

\* b'\000' * n
Zeros(n) == Bytes(<< >>, 0, 0, n, NoFlip)

\* len(b)
Length(b) == Len(b.lit) + b.len + b.zeros

\* b[i]
ByteAt(b, i) ==
    LET raw == IF i < Len(b.lit) THEN b.lit[i + 1]
               ELSE IF i < Len(b.lit) + b.len THEN FileByte(b.src + (i - Len(b.lit)))
               ELSE 0
    IN  IF i = b.flip THEN (raw + 1) % (2^8) ELSE raw

\* a == b on byte strings: the same length and the same byte everywhere.
SameBytes(a, b) ==
    /\ Length(a) = Length(b)
    /\ \A i \in 0 .. (Length(a) - 1) : ByteAt(a, i) = ByteAt(b, i)

\* a + z, for z made of zero bytes only.
Concat(a, z) == Bytes(a.lit, a.src, a.len, a.zeros + z.zeros, a.flip)

\* Python's s[a:b] for 0 <= a <= b, clipped to the length of s.
Slice(s, a, b) ==
    LET from == Min(a, Length(s))
        to == Max(from, Min(b, Length(s)))
        l1 == Len(s.lit)
        l2 == Len(s.lit) + s.len
        f1 == Max(l1, Min(from, l2))
        f2 == Max(l1, Min(to, l2))
        lit == SubSeq(s.lit, Min(from, l1) + 1, Min(to, l1))
    IN  Bytes(lit, s.src + (f1 - l1), f2 - f1,
              (to - from) - Len(lit) - (f2 - f1),
              IF from <= s.flip /\ s.flip < to THEN s.flip - from ELSE NoFlip)

\* list(b): the bytes one by one.
AsList(b) == [i \in 1 .. Length(b) |-> ByteAt(b, i - 1)]

\* Padding that stops one byte short of the page boundary.
PadShort(d) == Concat(d, Zeros(PageSize - (Length(d) % PageSize) - 1))

\* Line 58: data += b'\000' * (512 - len(data) % 512)
Pad(d) == Concat(d, Zeros(PageSize - (Length(d) % PageSize)))

\* The slice taken without the offset of the page.
BlockSliceNoPage(d, p, b) == Slice(d, b * BlockSize, b * BlockSize + BlockSize)

\* Line 112: data[page * 512 + block * 64:page * 512 + block * 64 + 64]
BlockSlice(d, p, b) ==
    Slice(d, p * PageSize + b * BlockSize, p * PageSize + b * BlockSize + BlockSize)

\* Line 126: data[block_number * 64:block_number * 64 + 64]
VerifySlice(d, n) == Slice(d, n * BlockSize, n * BlockSize + BlockSize)

\* Line 104: page_count = len(data) // 512
PageCount(d) == Length(d) \div PageSize

\* Line 107: the page header [0x02, page]
PageHeader(p) == Lit(<<CMD_WRITE_PAGE, p>>)

\* Line 120: the verify-page header [0x06, 0]
VerifyHeader == Lit(<<CMD_VERIFY_PAGE, 0>>)

\* Line 124: the verify-block request [0x03, block_number]
VerifyRequest(n) == Lit(<<CMD_READ_BLOCK, n>>)

\* Whether PyUSB can build the array('B') of a list handed to write(): it
\* raises OverflowError, before any transfer, when an element is no byte.
FitsByteArray(bytes) ==
    \A i \in 0 .. (Length(bytes) - 1) : ByteAt(bytes, i) \in ByteRange

(***************************************************************************)
(* Firmware files: the inputs of a run.                                    *)
(***************************************************************************)
\* Lengths just below, at and just above each multiple of the page size.
LengthsUpTo(pages) ==
    { n \in UNION { {k * PageSize - 1, k * PageSize, k * PageSize + 1} : k \in 0 .. pages } :
        n >= 0 }

\* The shortest file whose image, padded to the next multiple of the page
\* size, has a block with index 256.
OverflowLength == (2^8) * BlockSize + 1

(***************************************************************************)
(* The bootloader at the other end of the wire (spec, section 6).          *)
(***************************************************************************)
\* What an erased block reads as.
ErasedBlock == Lit([i \in 1 .. BlockSize |-> 2^8 - 1])

\* The device stores a 64-byte payload at its write cursor.
DeviceStore(f, k, payload) ==
    [j \in (DOMAIN f) \cup {k} |-> IF j = k THEN payload ELSE f[j]]

\* The device answers [0x03, n] with the block it holds at index n.
DeviceRead(f, n) == IF n \in DOMAIN f THEN f[n] ELSE ErasedBlock

\* The stored image with the byte at 0-based offset o changed.
FlipByte(f, o) ==
    LET k == o \div BlockSize
        old == DeviceRead(f, k)
    IN  DeviceStore(f, k, [old EXCEPT !.flip = o % BlockSize])

\* Offsets at which the stored image of n bytes may come to differ from
\* what was written: the first and last byte of the first page, the first
\* byte of the second block of the last page, and the last byte.
FlipOffsets(n) ==
    { o \in {0, PageSize - 1, n - PageSize + BlockSize, n - 1} : 0 <= o /\ o < n }

(***************************************************************************)
(* State.                                                                  *)
(***************************************************************************)
VARIABLES
    file,          \* the bytes read from the firmware file (line 55)
    data,          \* the image: the file, and from line 58 on, padded
    pc,            \* the statement the script is at
    pidx,          \* position of the loop of line 63 in product_ids
    dongle,        \* the device handle, named by the product it was found as
    polls,         \* lookups made by the polling loop of line 88
    elapsed,       \* time.time() - start at line 88, in ticks
    page_count,
    page,
    block,
    block_number,
    flash,         \* the device's stored image: block index -> 64 bytes
    devCursor,     \* the block index the device stores its next payload at
    flip,          \* offset of the byte the device holds wrongly, or NoFlip
    log,           \* every USB call made, in order
    error,         \* the exception that ended the run, "" while there is none
    failAt         \* <<page, block>> of the verification failure message

vars == <<file, data, pc, pidx, dongle, polls, elapsed, page_count, page,
          block, block_number, flash, devCursor, flip, log, error, failAt>>

NoBytes == Lit(<< >>)

\* One USB call: the operation, the handle (for find: the product looked
\* up), the endpoint, the bytes written, the length asked for by a read,
\* the timeout passed, and how the call ended.
Call(op, dev, ep, bytes, n, t, res) ==
    [op |-> op, dev |-> dev, ep |-> ep, data |-> bytes, len |-> n,
     timeout |-> t, res |-> res]

\* usb.core.find(idVendor=0x1915, idProduct=product_id): `dev' names the
\* handle the lookup is for, `data' the identifiers looked up.
FindCall(product_id, res) ==
    Call("find", HandleOf(product_id), 0, Lit(<<VendorId, product_id>>), 0, NoTimeout, res)

Last(s) == s[Len(s)]

\* An uncaught exception ends the run.
Raise(e) == /\ pc' = "failed"
            /\ error' = e

InitWith(files) ==
    /\ file \in files
    /\ data = file
    /\ pc = "pad"
    /\ pidx = 1
    /\ dongle = Unbound
    /\ polls = 0
    /\ elapsed = 0
    /\ page_count = 0
    /\ page = 0
    /\ block = 0
    /\ block_number = 0
    /\ flash = << >>
    /\ devCursor = 0
    /\ flip = NoFlip
    /\ log = << >>
    /\ error = ""
    /\ failAt = << >>

Files == { FileOfLength(n) : n \in LengthsUpTo(MaxFilePages) }

Init == InitWith(Files)

(***************************************************************************)
(* Lines 57-58: zero pad the image.                                        *)
(***************************************************************************)
PadImage ==
    /\ pc = "pad"
    /\ data' = Pad(data)
    /\ pc' = "app_find"
    /\ UNCHANGED <<file, pidx, dongle, polls, elapsed, page_count, page, block,
                   block_number, flash, devCursor, flip, log, error, failAt>>

(***************************************************************************)
(* Lines 62-83: ask an application-mode dongle to jump to the bootloader.  *)
(***************************************************************************)
\* A loop of line 63 that a `continue' ends the run of.
NextProductAborts ==
    /\ pidx' = pidx + 1
    /\ pc' = "failed"

\* `continue', or the end of the loop body: the next product, or line 85.
NextProduct ==
    /\ pidx' = pidx + 1
    /\ pc' = IF pidx + 1 <= Len(product_ids) THEN "app_find" ELSE "poll_check"

\* Lines 63-68 and 81-83: the lookup of product_ids[pidx].
AppFind ==
    /\ pc = "app_find"
    /\ pidx <= Len(product_ids)
    /\ \/ \* a device is found
          /\ dongle' = HandleOf(product_ids[pidx])
          /\ log' = Append(log, FindCall(product_ids[pidx], "ok"))
          /\ pc' = "app_jump"
          /\ UNCHANGED pidx
       \/ \* find returns None: continue
          /\ dongle' = None
          /\ log' = Append(log, FindCall(product_ids[pidx], "none"))
          /\ NextProduct
       \/ \* find raises: caught at line 81, logged, continue
          /\ log' = Append(log, FindCall(product_ids[pidx], "error"))
          /\ NextProduct
          /\ UNCHANGED dongle
    /\ UNCHANGED <<file, data, polls, elapsed, page_count, page, block, block_number,
                   flash, devCursor, flip, error, failAt>>

\* The entry commands of the two products, exchanged.
JumpCallSwapped(product_id, res) ==
    IF product_id = PID_B
    THEN Call("write", dongle, EP_OUT, Lit(<<JumpCmd>>), 0, Timeout(usb_timeout), res)
    ELSE Call("ctrl", dongle, 0, Lit(<<CtrlRequestType, JumpCmd, 0, 0>>), 0, Timeout(usb_timeout), res)

\* Lines 72-75: the entry command of the product found.
JumpCall(product_id, res) ==
    IF product_id = PID_A
    THEN Call("write", dongle, EP_OUT, Lit(<<JumpCmd>>), 0, Timeout(usb_timeout), res)
    ELSE Call("ctrl", dongle, 0, Lit(<<CtrlRequestType, JumpCmd, 0, 0>>), 0, Timeout(usb_timeout), res)

\* Lines 70-75 and 81-83.
AppJump ==
    /\ pc = "app_jump"
    /\ \/ \* the command is sent
          /\ log' = Append(log, JumpCall(product_ids[pidx], "ok"))
          /\ pc' = "app_dispose"
          /\ UNCHANGED pidx
       \/ \* the command raises: caught at line 81, logged, continue
          /\ log' = Append(log, JumpCall(product_ids[pidx], "error"))
          /\ NextProduct
    /\ UNCHANGED <<file, data, dongle, polls, elapsed, page_count, page, block,
                   block_number, flash, devCursor, flip, error, failAt>>

\* Lines 76-77 and 79-80: usb.util.dispose_resources(dongle).
AppDispose ==
    /\ pc = "app_dispose"
    /\ \/ /\ log' = Append(log, Call("dispose", dongle, 0, NoBytes, 0, NoTimeout, "ok"))
          /\ pc' = "app_reset"
          /\ UNCHANGED pidx
       \/ \* raises: swallowed by the bare except of line 79
          /\ log' = Append(log, Call("dispose", dongle, 0, NoBytes, 0, NoTimeout, "error"))
          /\ NextProduct
    /\ UNCHANGED <<file, data, dongle, polls, elapsed, page_count, page, block,
                   block_number, flash, devCursor, flip, error, failAt>>

\* Lines 78-80: dongle.reset(); a failure is swallowed.
AppReset ==
    /\ pc = "app_reset"
    /\ \E res \in {"ok", "error"} :
          log' = Append(log, Call("reset", dongle, 0, NoBytes, 0, NoTimeout, res))
    /\ NextProduct
    /\ UNCHANGED <<file, data, dongle, polls, elapsed, page_count, page, block,
                   block_number, flash, devCursor, flip, error, failAt>>

(***************************************************************************)
(* Lines 85-100: look for the bootloader for one second.                   *)
(***************************************************************************)
\* A window that shuts one tick early.
WindowShutEarly(e) == e < MaxPolls - 1

\* Line 88: time.time() - start < 1.  The second is MaxPolls ticks long.
WindowOpen(e) == e < MaxPolls

\* Lines 87-88: start = time.time(); while time.time() - start < 1.  The
\* first test follows the reading of `start' at once and passes; a lookup
\* takes at least one tick, so at most MaxPolls of them fit in the window.
PollCheck ==
    /\ pc = "poll_check"
    /\ pc' = IF WindowOpen(elapsed) THEN "poll_find" ELSE "check_found"
    /\ UNCHANGED <<file, data, pidx, dongle, polls, elapsed, page_count, page,
                   block, block_number, flash, devCursor, flip, log, error,
                   failAt>>

\* Lines 89-91 and 94-95: the lookup of the bootloader.
PollFind ==
    /\ pc = "poll_find"
    /\ polls' = polls + 1
    /\ \E d \in 1 .. (MaxPolls - elapsed) : elapsed' = elapsed + d
    /\ \/ \* found: go on to configure it
          /\ dongle' = HandleOf(PID_BOOT)
          /\ log' = Append(log, FindCall(PID_BOOT, "ok"))
          /\ pc' = "poll_configure"
          /\ UNCHANGED error
       \/ \* find returns None: the loop goes round
          /\ dongle' = None
          /\ log' = Append(log, FindCall(PID_BOOT, "none"))
          /\ pc' = "poll_check"
          /\ UNCHANGED error
       \/ \* find raises AttributeError: continue, `dongle' keeps its value
          /\ log' = Append(log, FindCall(PID_BOOT, "attr_error"))
          /\ pc' = "poll_check"
          /\ UNCHANGED <<dongle, error>>
       \/ \* find raises anything else: not caught
          /\ log' = Append(log, FindCall(PID_BOOT, "error"))
          /\ Raise("USBError")
          /\ UNCHANGED dongle
    /\ UNCHANGED <<file, data, pidx, page_count, page, block, block_number,
                   flash, devCursor, flip, failAt>>

\* Lines 92-95: dongle.set_configuration(); break.
PollConfigure ==
    /\ pc = "poll_configure"
    /\ \/ /\ log' = Append(log, Call("config", dongle, 0, NoBytes, 0, NoTimeout, "ok"))
          /\ pc' = "check_found"
          /\ UNCHANGED error
       \/ \* raises AttributeError: continue, with `dongle' set
          /\ log' = Append(log, Call("config", dongle, 0, NoBytes, 0, NoTimeout, "attr_error"))
          /\ pc' = "poll_check"
          /\ UNCHANGED error
       \/ \* raises anything else: not caught
          /\ log' = Append(log, Call("config", dongle, 0, NoBytes, 0, NoTimeout, "error"))
          /\ Raise("USBError")
    /\ UNCHANGED <<file, data, pidx, dongle, polls, elapsed, page_count, page, block,
                   block_number, flash, devCursor, flip, failAt>>

\* Lines 97-104: give up when no device is held, else start writing.
CheckFound ==
    /\ pc = "check_found"
    /\ IF dongle = Unbound
       THEN /\ Raise("NameError")
            /\ UNCHANGED <<page_count, page, block>>
       ELSE IF dongle = None
       THEN /\ Raise("No compatible device found.")
            /\ UNCHANGED <<page_count, page, block>>
       ELSE /\ page_count' = PageCount(data)
            /\ page' = 0
            /\ block' = 0
            /\ pc' = IF 0 < PageCount(data) THEN "write_header" ELSE "begin_verify"
            /\ UNCHANGED error
    /\ UNCHANGED <<file, data, pidx, dongle, polls, elapsed, block_number, flash,
                   devCursor, flip, log, failAt>>

(***************************************************************************)
(* Lines 102-114: write the image, one page at a time.  Each action is one *)
(* exchange with the bootloader: a write and the read of its answer.       *)
(***************************************************************************)
\* A transfer failure swallowed, as the bare except of line 79 would: the
\* script goes on to the verification.
TransferIgnored == /\ pc' = "begin_verify"
                   /\ UNCHANGED error

\* No handler surrounds the transfers of lines 105-128: a transfer that
\* raises (an error, a timeout) ends the run.
TransferFailed == Raise("USBError")

WriteCall(bytes, t, res) == Call("write", dongle, EP_OUT, bytes, 0, t, res)

\* dongle.read(0x81, 64, timeout=usb_timeout)
ReadCall(res) == Call("read", dongle, EP_IN, NoBytes, BlockSize, Timeout(usb_timeout), res)

\* An exchange whose answer is left unread.
ExchangeUnread(bytes, t, res) == <<WriteCall(bytes, t, "ok")>>

\* The calls of an exchange whose write went through: the write, then the
\* read of the answer, which ends as res.
Exchange(bytes, t, res) == <<WriteCall(bytes, t, "ok"), ReadCall(res)>>

\* The timeout line 107 passes to write(): none.
PageHeaderTimeout == NoTimeout

\* A write loop that stops one page short.
WriteLoopShort(p, n) == p + 1 < n - 1

\* Line 105: for page in range(page_count) has a page after page p.
WriteLoopContinues(p, n) == p + 1 < n

\* Lines 105-108: dongle.write(0x01, [0x02, page]) and the read of the
\* acknowledgment; then line 111.
WritePageHeader ==
    /\ pc = "write_header"
    /\ page < page_count
    /\ IF ~FitsByteArray(PageHeader(page))
       THEN /\ Raise("OverflowError")
            /\ UNCHANGED <<log, devCursor, block>>
       ELSE \/ \* the write raises
               /\ log' = Append(log, WriteCall(PageHeader(page), PageHeaderTimeout, "error"))
               /\ TransferFailed
               /\ UNCHANGED <<devCursor, block>>
            \/ \* the read of the acknowledgment raises
               /\ log' = log \o Exchange(PageHeader(page), PageHeaderTimeout, "error")
               /\ devCursor' = page * BlocksPerPage
               /\ TransferFailed
               /\ UNCHANGED block
            \/ /\ log' = log \o Exchange(PageHeader(page), PageHeaderTimeout, "ok")
               /\ devCursor' = page * BlocksPerPage
               /\ block' = 0
               /\ pc' = "write_block"
               /\ UNCHANGED error
    /\ UNCHANGED <<file, data, pidx, dongle, polls, elapsed, page_count, page,
                   block_number, flash, flip, failAt>>

\* Lines 111-114: the next 64 bytes of the page and the read of the
\* acknowledgment; and the loops of lines 111 and 105 going round.
WriteBlock ==
    /\ pc = "write_block"
    /\ block < BlocksPerPage
    /\ LET block_write == BlockSlice(data, page, block)
       IN  \/ \* the write raises
              /\ log' = Append(log, WriteCall(block_write, Timeout(usb_timeout), "error"))
              /\ TransferFailed
              /\ UNCHANGED <<flash, devCursor, page, block>>
           \/ \* the read of the acknowledgment raises
              /\ log' = log \o Exchange(block_write, Timeout(usb_timeout), "error")
              /\ flash' = DeviceStore(flash, devCursor, block_write)
              /\ devCursor' = devCursor + 1
              /\ TransferFailed
              /\ UNCHANGED <<page, block>>
           \/ /\ log' = log \o Exchange(block_write, Timeout(usb_timeout), "ok")
              /\ flash' = DeviceStore(flash, devCursor, block_write)
              /\ devCursor' = devCursor + 1
              /\ IF block + 1 < BlocksPerPage
                 THEN /\ block' = block + 1
                      /\ pc' = "write_block"
                      /\ UNCHANGED page
                 ELSE IF WriteLoopContinues(page, page_count)
                 THEN /\ page' = page + 1
                      /\ pc' = "write_header"
                      /\ UNCHANGED block
                 ELSE /\ pc' = "begin_verify"
                      /\ UNCHANGED <<page, block>>
              /\ UNCHANGED error
    /\ UNCHANGED <<file, data, pidx, dongle, polls, elapsed, page_count, block_number,
                   flip, failAt>>

(***************************************************************************)
(* Lines 116-131: read the image back and compare.                         *)
(***************************************************************************)
\* Lines 116-119: block_number = 0.  By now the device holds what was
\* written, or holds one byte of it wrongly.
BeginVerify ==
    /\ pc = "begin_verify"
    /\ block_number' = 0
    /\ \E o \in {NoFlip} \cup FlipOffsets(Length(data)) :
          /\ flip' = o
          /\ flash' = IF o = NoFlip THEN flash ELSE FlipByte(flash, o)
    /\ IF 0 < page_count
       THEN /\ page' = 0
            /\ pc' = "verify_header"
       ELSE /\ pc' = "finish"
            /\ UNCHANGED page
    /\ UNCHANGED <<file, data, pidx, dongle, polls, elapsed, page_count, block,
                   devCursor, log, error, failAt>>

\* Line 119: for page in range(page_count) has a page after page p.
VerifyLoopContinues(p, n) == p + 1 < n

\* Lines 119-121: dongle.write(0x01, [0x06, 0], timeout=usb_timeout) and
\* the read of the acknowledgment; then line 123.
WriteVerifyHeader ==
    /\ pc = "verify_header"
    /\ page < page_count
    /\ \/ \* the write raises
          /\ log' = Append(log, WriteCall(VerifyHeader, Timeout(usb_timeout), "error"))
          /\ TransferFailed
          /\ UNCHANGED block
       \/ \* the read of the acknowledgment raises
          /\ log' = log \o Exchange(VerifyHeader, Timeout(usb_timeout), "error")
          /\ TransferFailed
          /\ UNCHANGED block
       \/ /\ log' = log \o Exchange(VerifyHeader, Timeout(usb_timeout), "ok")
          /\ block' = 0
          /\ pc' = "verify_block"
          /\ UNCHANGED error
    /\ UNCHANGED <<file, data, pidx, dongle, polls, elapsed, page_count, page,
                   block_number, flash, devCursor, flip, failAt>>

\* Lines 123-128: dongle.write(0x01, [0x03, block_number], ...), the read
\* of the block, the comparison and the count; and the loops of lines 123
\* and 119 going round.
VerifyBlock ==
    /\ pc = "verify_block"
    /\ block < BlocksPerPage
    /\ IF ~FitsByteArray(VerifyRequest(block_number))
       THEN /\ Raise("OverflowError")
            /\ UNCHANGED <<log, page, block, block_number, failAt>>
       ELSE \/ \* the write raises
               /\ log' = Append(log, WriteCall(VerifyRequest(block_number), Timeout(usb_timeout), "error"))
               /\ TransferFailed
               /\ UNCHANGED <<page, block, block_number, failAt>>
            \/ \* the read of the block raises
               /\ log' = log \o Exchange(VerifyRequest(block_number), Timeout(usb_timeout), "error")
               /\ TransferFailed
               /\ UNCHANGED <<page, block, block_number, failAt>>
            \/ /\ log' = log \o Exchange(VerifyRequest(block_number), Timeout(usb_timeout), "ok")
               /\ LET block_read == DeviceRead(flash, ByteAt(VerifyRequest(block_number), 1))
                  IN  IF ~SameBytes(block_read, VerifySlice(data, block_number))
                      THEN /\ Raise("Verification failed")
                           /\ failAt' = <<page, block>>
                           /\ UNCHANGED <<page, block, block_number>>
                      ELSE /\ block_number' = block_number + 1
                           /\ IF block + 1 < BlocksPerPage
                              THEN /\ block' = block + 1
                                   /\ pc' = "verify_block"
                                   /\ UNCHANGED page
                              ELSE IF VerifyLoopContinues(page, page_count)
                              THEN /\ page' = page + 1
                                   /\ pc' = "verify_header"
                                   /\ UNCHANGED block
                              ELSE /\ pc' = "finish"
                                   /\ UNCHANGED <<page, block>>
                           /\ UNCHANGED <<error, failAt>>
    /\ UNCHANGED <<file, data, pidx, dongle, polls, elapsed, page_count, flash,
                   devCursor, flip>>

\* Lines 130-131: "Firmware programming completed successfully".
Finish ==
    /\ pc = "finish"
    /\ pc' = "done"
    /\ UNCHANGED <<file, data, pidx, dongle, polls, elapsed, page_count, page, block,
                   block_number, flash, devCursor, flip, log, error, failAt>>

(***************************************************************************)
(* The script.                                                             *)
(***************************************************************************)
Discover ==
    \/ PadImage
    \/ AppFind
    \/ AppJump
    \/ AppDispose
    \/ AppReset
    \/ PollCheck
    \/ PollFind
    \/ PollConfigure
    \/ CheckFound

Flash ==
    \/ WritePageHeader
    \/ WriteBlock
    \/ BeginVerify
    \/ WriteVerifyHeader
    \/ VerifyBlock
    \/ Finish

Next == Discover \/ Flash

Spec == Init /\ [][Next]_vars

(***************************************************************************)
(* The write and verify phases alone, for larger images: a run that found  *)
(* no application-mode dongle, found the bootloader at the first lookup    *)
(* and configured it, taken from line 102 on.                              *)
(***************************************************************************)
FlashFiles ==
    { FileOfLength(n) : n \in LengthsUpTo(MaxFlashPages) \cup {OverflowLength} }

DiscoveryLog ==
    << FindCall(PID_A, "none"), FindCall(PID_B, "none"), FindCall(PID_BOOT, "ok"),
       Call("config", HandleOf(PID_BOOT), 0, NoBytes, 0, NoTimeout, "ok") >>

InitFlash ==
    /\ file \in FlashFiles
    /\ data = Pad(file)
    /\ pc = "write_header"
    /\ pidx = Len(product_ids) + 1
    /\ dongle = HandleOf(PID_BOOT)
    /\ polls = 1
    /\ elapsed = 1
    /\ page_count = PageCount(Pad(file))
    /\ page = 0
    /\ block = 0
    /\ block_number = 0
    /\ flash = << >>
    /\ devCursor = 0
    /\ flip = NoFlip
    /\ log = DiscoveryLog
    /\ error = ""
    /\ failAt = << >>

SpecFlash == InitFlash /\ [][Flash]_vars

(***************************************************************************)
(* The padding and the two discovery phases alone, lines 53-104: a run up  *)
(* to the first page header, or to the failure that ends it before.        *)
(***************************************************************************)
SpecDiscover == Init /\ [][Discover]_vars

(***************************************************************************)
(* The padding of line 58 alone, over files of many lengths.               *)
(***************************************************************************)
PadFiles == { FileOfLength(n) : n \in LengthsUpTo(MaxPadPages) }

InitPad == InitWith(PadFiles)

NextPad == PadImage

SpecPad == InitPad /\ [][NextPad]_vars

(***************************************************************************)
(* What the claims speak of.                                               *)
(***************************************************************************)
Padded == pc # "pad"

\* The fewest bytes that bring a length to a multiple of the page size.
MinimalPadding(n) == (PageSize - (n % PageSize)) % PageSize

\* C4: the padded length is L + ((512 - L mod 512) mod 512): an image whose
\* length is already a multiple of 512 is not lengthened.
C4_MinimalPadding ==
    Padded => Length(data) = Length(file) + MinimalPadding(Length(file))

\* C5: the padded length is a multiple of 512, the first L bytes are the
\* file's bytes in order, and every byte after them is zero.
C5_PaddingPreservesImage ==
    Padded =>
        /\ Length(data) % PageSize = 0
        /\ Length(data) >= Length(file)
        /\ \A i \in 0 .. (Length(data) - 1) :
              ByteAt(data, i) = IF i < Length(file) THEN ByteAt(file, i) ELSE 0

\* A file that is not a whole number of pages has been padded.
C5_Witness ==
    /\ Padded
    /\ Length(file) > PageSize
    /\ Length(file) % PageSize = PageSize - 1
    /\ Length(data) > Length(file)


(***************************************************************************)
(* The calls of `log', told apart as an observer of the wire would.        *)
(***************************************************************************)
IsPageHeader(c) ==
    c.op = "write" /\ Length(c.data) = 2 /\ ByteAt(c.data, 0) = CMD_WRITE_PAGE

IsBlockWrite(c) == c.op = "write" /\ Length(c.data) = BlockSize

IsVerifyHeader(c) ==
    c.op = "write" /\ Length(c.data) = 2 /\ ByteAt(c.data, 0) = CMD_VERIFY_PAGE

IsVerifyRequest(c) ==
    c.op = "write" /\ Length(c.data) = 2 /\ ByteAt(c.data, 0) = CMD_READ_BLOCK

IsWriteCommand(c) == IsPageHeader(c) \/ IsBlockWrite(c)

IsVerifyCommand(c) == IsVerifyHeader(c) \/ IsVerifyRequest(c)

IsRead(c) == c.op = "read"

\* A call of the write or verify phase: a bootloader command or a read.
IsFlashCall(c) == IsWriteCommand(c) \/ IsVerifyCommand(c) \/ IsRead(c)

FlashIndices == { i \in 1 .. Len(log) : IsFlashCall(log[i]) }

Ended == pc \in {"done", "failed"}

\* Every transfer of the write and verify phases so far went through.
AllTransfersOk == \A i \in FlashIndices : log[i].res = "ok"

\* The run holds the bootloader's handle and is past line 100.
InFlashPhase ==
    pc \in {"write_header", "write_block", "begin_verify", "verify_header",
            "verify_block", "finish", "done"}

\* The run got past line 100: it asked for a page to be written, or ended
\* in one of the two phases.
ReachedFlash == InFlashPhase \/ FlashIndices # {} \/ error = "OverflowError"

\* C1: with the bootloader found, every write and read succeeding and the
\* device returning what was written, the run never fails: it ends only
\* with "Firmware programming completed successfully".
C1_RoundTrip ==
    (/\ ReachedFlash
     /\ dongle = HandleOf(PID_BOOT)
     /\ AllTransfersOk
     /\ flip = NoFlip)
    => pc # "failed"

\* The block the device holds wrongly.
FlippedBlock == flip \div BlockSize

\* C2: with one byte of block k stored wrongly, verification fails with
\* (page = k div 8, block = k mod 8), success is never reached and no block
\* beyond k is asked for.
C2_FailFast ==
    flip # NoFlip =>
        /\ pc # "done"
        /\ \A i \in 1 .. Len(log) :
              IsVerifyRequest(log[i]) => ByteAt(log[i].data, 1) <= FlippedBlock
        /\ (Ended /\ AllTransfersOk) =>
              /\ error = "Verification failed"
              /\ failAt = <<FlippedBlock \div BlocksPerPage, FlippedBlock % BlocksPerPage>>

\* Whether a verify command has been sent.
VerifyStarted == \E i \in 1 .. Len(log) : IsVerifyCommand(log[i])

\* C3: a transfer that fails during page writing ends the run there: it is
\* the last call made, the run has failed, and nothing of the verification
\* was or will be sent.
C3_WriteFailureIsFatal ==
    \A i \in 1 .. Len(log) :
        (IsFlashCall(log[i]) /\ log[i].res # "ok") =>
            /\ i = Len(log)
            /\ pc = "failed"
            /\ error = "USBError"
            /\ ~ENABLED Next

\* A block acknowledgment of the second page timed out, and no verify
\* command was sent.
C3_Witness ==
    /\ pc = "failed"
    /\ page = 1
    /\ block = BlocksPerPage - 1
    /\ IsRead(Last(log))
    /\ Last(log).res = "error"
    /\ ~VerifyStarted

\* The outbound writes of the write phase: every write made on the wire
\* after the discovery and before the first verify command.
IsDiscoveryCall(c) ==
    \/ c.op \in {"find", "ctrl", "dispose", "reset", "config"}
    \/ c.op = "write" /\ c.data = Lit(<<JumpCmd>>)

IsWritePhaseWrite(c) ==
    c.op = "write" /\ ~IsDiscoveryCall(c) /\ ~IsVerifyCommand(c)

WritePhaseWrites == SelectSeq(log, IsWritePhaseWrite)

\* The j-th write (from 1) of the write phase of image d, as C6 has
\* it: the header of page p, then the eight 64-byte slices of the page.
IsExpectedWrite(c, j, d) ==
    LET p == (j - 1) \div (BlocksPerPage + 1)
        r == (j - 1) % (BlocksPerPage + 1)
    IN  IF r = 0
        THEN AsList(c.data) = <<2, p>>
        ELSE /\ Length(c.data) = 64
             /\ \A t \in 0 .. 63 :
                   ByteAt(c.data, t) = ByteAt(d, p * 512 + (r - 1) * 64 + t)

WritePhaseOver ==
    pc \in {"begin_verify", "verify_header", "verify_block", "finish", "done"}

\* C6: with every transfer succeeding, the writes of the write phase are,
\* for p = 0 .. P-1 in order, the header [0x02, p] and the 8 consecutive
\* 64-byte slices of page p: P headers and 8P block writes in all.  (Every
\* call enters the log as its last entry, so the last write is checked in
\* every state.)
C6_WriterTrace ==
    AllTransfersOk =>
        LET W == WritePhaseWrites
        IN  /\ Len(W) <= (BlocksPerPage + 1) * PageCount(data)
            /\ Len(W) > 0 => IsExpectedWrite(W[Len(W)], Len(W), data)
            /\ WritePhaseOver =>
                  /\ Len(W) = (BlocksPerPage + 1) * PageCount(data)
                  /\ Len(SelectSeq(W, IsPageHeader)) = PageCount(data)
                  /\ Len(SelectSeq(W, IsBlockWrite)) = BlocksPerPage * PageCount(data)

\* The write phase of a three-page image is over.
C6_Witness ==
    /\ pc = "begin_verify"
    /\ AllTransfersOk
    /\ PageCount(data) = 3
    /\ Len(WritePhaseWrites) = 27

VerifyRequests == SelectSeq(log, IsVerifyRequest)

VerifyHeaders == SelectSeq(log, IsVerifyHeader)

\* C7: a verification pass that finds no mismatch on a P-page image sends
\* P verify-page headers [0x06, 0] and 8P verify-block requests; the index
\* carried starts at 0, goes up by one from each request to the next across
\* pages, and is 8 * page + block at every request.
C7_VerifierAddressing ==
    LET R == VerifyRequests
        H == VerifyHeaders
    IN  /\ \A j \in 1 .. Len(R) : AsList(R[j].data) = <<3, j - 1>>
        /\ \A j \in 1 .. Len(H) : AsList(H[j].data) = <<6, 0>>
        /\ pc = "verify_block" =>
              /\ Len(R) = block_number
              /\ block_number = 8 * page + block
        /\ (/\ Ended
            /\ H # << >>
            /\ AllTransfersOk
            /\ error # "Verification failed")
           => /\ Len(H) = PageCount(data)
              /\ Len(R) = 8 * PageCount(data)

\* Position in the log of the first verify command, or past its end.
FirstVerify ==
    LET S == { i \in 1 .. Len(log) : IsVerifyCommand(log[i]) }
    IN  IF S = {} THEN Len(log) + 1 ELSE CHOOSE i \in S : \A j \in S : i <= j

\* C8: every page header and block write, with its acknowledgment read,
\* comes before the first verify command, and once a verify command has
\* been sent no page header or block write is issued again.
C8_WriteBeforeVerify ==
    VerifyStarted =>
        /\ \A j \in FirstVerify .. Len(log) : ~IsWritePhaseWrite(log[j])
        /\ Len(WritePhaseWrites) = 9 * PageCount(data)
        /\ \A j \in 1 .. (FirstVerify - 1) :
              IsWritePhaseWrite(log[j]) =>
                  /\ log[j].res = "ok"
                  /\ IsRead(log[j + 1])
                  /\ log[j + 1].res = "ok"

\* The verification of the second page of a three-page image has begun.
C8_Witness ==
    /\ pc = "verify_block"
    /\ page = 1
    /\ PageCount(data) = 3
    /\ Len(VerifyHeaders) = 2

\* A write or read of the write and verify phases.
IsWireCall(c) == c.op \in {"write", "read"} /\ ~IsDiscoveryCall(c)

\* C9: in both phases every write on endpoint 0x01 is followed by one
\* successful 64-byte read on endpoint 0x81 before the next write; no two
\* writes come back to back and no read comes without an unanswered write
\* before it.
C9_HalfDuplex ==
    \A i \in 1 .. Len(log) :
        IsWireCall(log[i]) =>
            /\ log[i].op = "write" =>
                  /\ log[i].ep = 1
                  /\ log[i].res # "ok" => i = Len(log)
                  /\ log[i].res = "ok" => i < Len(log)
                  /\ i < Len(log) =>
                        /\ log[i + 1].op = "read"
                        /\ log[i + 1].ep = 129
                        /\ log[i + 1].len = 64
            /\ log[i].op = "read" =>
                  /\ i > 1
                  /\ log[i - 1].op = "write"
                  /\ IsWireCall(log[i - 1])
                  /\ log[i - 1].res = "ok"
                  /\ log[i].res # "ok" => i = Len(log)

\* Both phases of a two-page image have run to the end.
C9_Witness ==
    /\ pc = "done"
    /\ PageCount(data) = 2
    /\ Len(WritePhaseWrites) = 18
    /\ Len(VerifyRequests) = 16
    /\ Len(SelectSeq(log, IsRead)) = 36

\* No lookup has returned a device.
NoDeviceFound ==
    \A i \in 1 .. Len(log) : log[i].op = "find" => log[i].res # "ok"

Discovering ==
    pc \in {"pad", "app_find", "app_jump", "app_dispose", "app_reset",
            "poll_check", "poll_find", "poll_configure", "check_found"}

\* C10: when no application-mode device and, throughout the polling window,
\* no bootloader is found, the run aborts with 'No compatible device found'
\* and no page-write or verify command is sent.
C10_NoDeviceAborts ==
    (NoDeviceFound /\ ~Discovering) =>
        /\ pc = "failed"
        /\ error = "No compatible device found."
        /\ FlashIndices = {}

(***************************************************************************)
(* The two discovery phases.                                               *)
(***************************************************************************)
\* A lookup of the bootloader (product 0x0101), made by the polling loop.
IsBootFind(c) == c.op = "find" /\ c.dev = HandleOf(PID_BOOT)

\* A lookup of an application-mode product, made by the loop of line 63.
IsAppFind(c) == c.op = "find" /\ c.dev # HandleOf(PID_BOOT)

\* Failures that report that no device is held at line 98.
DiscoveryFailures == {"No compatible device found.", "NameError"}

\* log[i] is a bootloader lookup that found the device, and the call after
\* it configured the device.
FoundAndConfigured(i) ==
    /\ i < Len(log)
    /\ IsBootFind(log[i])
    /\ log[i].res = "ok"
    /\ log[i + 1].op = "config"
    /\ log[i + 1].res = "ok"

\* C11: a bootloader lookup that reports no device before the 1-second
\* window has elapsed does not abort the run and is followed by another
\* lookup; discovery failure is reported only once the window has elapsed;
\* a lookup that finds the device is followed by its configuration, after
\* which no lookup is made and the run goes on to the page writer.
C11_PollingWindow ==
    /\ error \in DiscoveryFailures => elapsed >= MaxPolls
    /\ (log # << >> /\ IsBootFind(Last(log))) =>
          /\ (Last(log).res = "none" /\ elapsed < MaxPolls) =>
                /\ error = ""
                /\ pc \in {"poll_check", "poll_find"}
          /\ Last(log).res = "ok" => pc = "poll_configure"
    /\ \A i \in 1 .. Len(log) :
          FoundAndConfigured(i) =>
              /\ \A j \in (i + 2) .. Len(log) : log[j].op # "find"
              /\ error \notin DiscoveryFailures
              /\ pc = "check_found" \/ ReachedFlash
              /\ pc = "check_found" => dongle = HandleOf(PID_BOOT)

\* The bootloader was absent at the first lookup and found at the second,
\* inside the window, and the page writer has been reached.
C11_Witness ==
    /\ pc = "write_header"
    /\ \E i \in 1 .. Len(log) :
          /\ IsBootFind(log[i])
          /\ log[i].res = "none"
          /\ FoundAndConfigured(i + 1)

\* An entry command: the bulk write of line 73 or the control transfer of
\* line 75.
IsJump(c) ==
    \/ c.op = "write" /\ c.data = Lit(<<JumpCmd>>)
    \/ c.op = "ctrl"

\* C12: ApplicationModeA (product 0x0102) is looked up before
\* ApplicationModeB (product 0x7777) in every run, and its entry command is
\* issued before any lookup or command for ApplicationModeB.
C12_ABeforeB ==
    /\ \A j \in 1 .. Len(log) :
          log[j].dev = HandleOf(PID_B) =>
              \E i \in 1 .. (j - 1) :
                  IsAppFind(log[i]) /\ log[i].dev = HandleOf(PID_A)
    /\ \A i \in 1 .. Len(log) :
          (IsAppFind(log[i]) /\ log[i].dev = HandleOf(PID_A)) =>
              /\ i = 1
              /\ (log[i].res = "ok" /\ i < Len(log)) =>
                    IsJump(log[i + 1]) /\ log[i + 1].dev = HandleOf(PID_A)
    /\ \A i \in 1 .. Len(log) :
          (IsJump(log[i]) /\ log[i].dev = HandleOf(PID_A)) => i = 2
    /\ \A j \in 1 .. Len(log) :
          log[j].dev = HandleOf(PID_B) =>
              /\ j > 1
              /\ log[1].res = "ok" => j > 2

\* Both application-mode devices were present, and both were told to jump.
C12_Witness ==
    /\ Len(log) >= 6
    /\ log[1] = FindCall(PID_A, "ok")
    /\ IsJump(log[2]) /\ log[2].res = "ok"
    /\ \E j \in 3 .. (Len(log) - 1) :
          /\ log[j] = FindCall(PID_B, "ok")
          /\ IsJump(log[j + 1])
          /\ log[j + 1].dev = HandleOf(PID_B)

\* The application-mode phase: lines 62-83.
InAppPhase == pc \in {"app_find", "app_jump", "app_dispose", "app_reset"}

BootLookupMade == \E i \in 1 .. Len(log) : IsBootFind(log[i])

\* The script runs on: a statement that can be executed is executed.
SpecLive == SpecDiscover /\ WF_vars(Discover)

\* C13: whatever fails in the application-mode phase (a lookup finds
\* nothing or raises, the jump command, the release of resources or the
\* reset fails), the run is not aborted there and goes on to make at least
\* one bootloader lookup.
C13_AppPhaseNotFatal ==
    /\ [](/\ InAppPhase => error = ""
          /\ (pc = "failed" \/ error # "") => BootLookupMade)
    /\ <>BootLookupMade

\* The lookup of one product raised and the reset of the other failed in
\* the application-mode phase, and the bootloader has been looked up.
C13_Witness ==
    /\ BootLookupMade
    /\ \E i \in 1 .. Len(log) : IsAppFind(log[i]) /\ log[i].res = "error"
    /\ \E i \in 1 .. Len(log) : log[i].op = "reset" /\ log[i].res = "error"

\* C14: every page-write and verify command, and every read of an answer,
\* goes to the handle a bootloader lookup (product 0x0101) of the polling
\* loop returned, never to a handle of the application-mode search.
C14_OnlyBootloaderHandle ==
    \A i \in 1 .. Len(log) :
        IsFlashCall(log[i]) =>
            /\ log[i].dev = HandleOf(PID_BOOT)
            /\ \E j \in 1 .. (i - 1) : IsBootFind(log[j]) /\ log[j].res = "ok"

\* C15: a bootloader lookup that raises a transport error is taken as 'not
\* found': the run is not aborted by it, and inside the window the polling
\* goes on.
C15_LookupErrorIsNotFound ==
    (/\ log # << >>
     /\ IsBootFind(Last(log))
     /\ Last(log).res \in {"error", "attr_error"})
    => /\ error \in {"", "No compatible device found."}
       /\ elapsed < MaxPolls =>
             /\ error = ""
             /\ pc \in {"poll_check", "poll_find"}

\* C16: a jump command that fails is still followed by the release of the
\* handle's resources and, when that goes through, by the reset of the
\* device, before the next lookup.
C16_JumpFailureStillResets ==
    \A i \in 1 .. Len(log) :
        (IsJump(log[i]) /\ log[i].res = "error" /\ i < Len(log)) =>
            /\ log[i + 1].op = "dispose"
            /\ log[i + 1].dev = log[i].dev
            /\ (log[i + 1].res = "ok" /\ i + 1 < Len(log)) =>
                  /\ log[i + 2].op = "reset"
                  /\ log[i + 2].dev = log[i].dev

\* C17: once an application-mode device has been found, no lookup of the
\* other product is made: a run issues at most one jump command and at
\* most one reset.
C17_ShortCircuit ==
    /\ \A i \in 1 .. Len(log) :
          (IsAppFind(log[i]) /\ log[i].res = "ok") =>
              \A j \in (i + 1) .. Len(log) : ~IsAppFind(log[j])
    /\ Len(SelectSeq(log, IsJump)) <= 1
    /\ Len(SelectSeq(log, LAMBDA c : c.op = "reset")) <= 1

\* C18: the entry command sent to a device found as product 0x0102 is the
\* bulk write of the single byte 0xFF on endpoint 0x01, the one sent to a
\* device found as product 0x7777 is the control transfer (0x40, 0xFF, 0,
\* 0, no data); resources are released after a command that went through
\* and the reset follows the release, so that no reset comes before the
\* command.  (The calls meant are those of the entry sequence, lines 70-80.)
C18_EntryCommandMatches ==
    \A i \in 1 .. Len(log) :
        /\ (IsAppFind(log[i]) /\ log[i].res = "ok" /\ i < Len(log)) =>
              /\ log[i + 1].dev = log[i].dev
              /\ log[i].dev = HandleOf(PID_A) =>
                    /\ log[i + 1].op = "write"
                    /\ log[i + 1].ep = 1
                    /\ AsList(log[i + 1].data) = <<255>>
              /\ log[i].dev = HandleOf(PID_B) =>
                    /\ log[i + 1].op = "ctrl"
                    /\ AsList(log[i + 1].data) = <<64, 255, 0, 0>>
                    /\ log[i + 1].len = 0
        /\ IsJump(log[i]) =>
              /\ i > 1
              /\ IsAppFind(log[i - 1])
              /\ log[i - 1].res = "ok"
              /\ log[i - 1].dev = log[i].dev
        /\ log[i].op = "dispose" =>
              /\ i > 1
              /\ IsJump(log[i - 1])
              /\ log[i - 1].res = "ok"
              /\ log[i - 1].dev = log[i].dev
        /\ log[i].op = "reset" =>
              /\ i > 2
              /\ log[i - 1].op = "dispose"
              /\ log[i - 1].res = "ok"
              /\ log[i - 1].dev = log[i].dev

\* Both products were found: each got its own entry command, its resources
\* were released and it was reset.
C18_Witness ==
    /\ Len(log) >= 8
    /\ log[1] = FindCall(PID_A, "ok")
    /\ log[2].op = "write" /\ log[3].op = "dispose" /\ log[4].op = "reset"
    /\ log[5] = FindCall(PID_B, "ok")
    /\ log[6].op = "ctrl" /\ log[7].op = "dispose" /\ log[8].op = "reset"

\* C19: for an image of at most 256 pages, the page index of every
\* [0x02, page] header and the block index of every [0x03, index] request
\* is in 0 .. 255, and the run does not fail on the encoding of an index.
C19_IndicesFitByte ==
    PageCount(data) <= 256 =>
        /\ error # "OverflowError"
        /\ LET R == VerifyRequests
               W == SelectSeq(log, IsPageHeader)
           IN  /\ R # << >> => ByteAt(Last(R).data, 1) \in ByteRange
               /\ W # << >> => ByteAt(Last(W).data, 1) \in ByteRange

\* C20: every transfer of the write and verify phases is issued with the
\* configured timeout of 2500 ms.
C20_TimeoutOnEveryTransfer ==
    \A i \in 1 .. Len(log) :
        IsFlashCall(log[i]) => log[i].timeout = <<2500>>

=============================================================================
